---- MODULE Spec2Model ----
(***************************************************************************)
(* Wavetable oscillators and IIR filters of nick-thompson/dsp.             *)
(*                                                                         *)
(* Numbers.  The code computes in IEEE doubles; the model computes in      *)
(* exact rationals, a record [n, d] with d > 0 in lowest terms.  The one   *)
(* value of the doubles that is no rational and that the code can reach,   *)
(* NaN (0.0/0.0 in numpy), is the record [n |-> 0, d |-> 0]; it spreads    *)
(* through every operation as in IEEE arithmetic.                          *)
(*                                                                         *)
(* Sizes.  TABLE_SIZE is 4096 = 2^12 in the code; the model keeps it a     *)
(* power of two, 2^TableBits, with a small exponent.                       *)
(***************************************************************************)
EXTENDS Integers, Sequences, FiniteSets, TLC

VARIABLES
    built,      \* the last call of wavetable.build: its arguments and what it gave
    ss_osc,     \* a StandardOscillator
    rs_osc,     \* a ResamplingOscillator
    rt_osc,     \* a RealTimeResamplingOscillator
    bufs,       \* the caller's buffers, by name
    initial,    \* what each buffer held when it was allocated
    rendered,   \* per buffer, the render calls made on it, in order
    heap,       \* the numpy arrays alive, by name: each a sequence of samples
    filt,       \* the BiquadFilter objects, by name
    stream,     \* per filter, the calls its caller made and what they passed
    lastCall,   \* the last process_block call: what it was given and what it left
    writes,     \* the number of writes the caller made to its own arrays
    apf,        \* a first-order AllpassFilter
    apbuf,      \* the input and the output buffer its caller holds
    apcall      \* the process_block calls made on it: how the last one ended,
                \* the output before it, and every pass of the loop so far

oscVars == <<ss_osc, rs_osc, rt_osc, bufs, initial, rendered>>

biquadVars == <<heap, filt, stream, lastCall, writes>>

allpassVars == <<apf, apbuf, apcall>>

vars == <<built, ss_osc, rs_osc, rt_osc, bufs, initial, rendered,
          heap, filt, stream, lastCall, writes, apf, apbuf, apcall>>

----------------------------------------------------------------------------
(* Bounds of the model *)

\* log2 of the wavetable size (12 in the code)
TableBits == 3

\* np.sin is evaluated to a multiple of 1/SinScale
SinScale == 120

\* the longest buffer a caller allocates
MaxBufSize == 3

\* the most render calls a caller makes
MaxRenders == 2

\* the longest input a filter's caller holds
MaxStream == 4

\* the most process_block calls a caller makes
MaxCalls == 3

\* the longest block the first-order allpass's caller passes
MaxBlock == 4

\* the most process_block calls the first-order allpass's caller makes
MaxAllpassCalls == 2

\* the most writes a caller makes to its arrays between calls
MaxWrites == 1

----------------------------------------------------------------------------
(* Exact rational arithmetic standing for the code's doubles *)

Abs(x) == IF x < 0 THEN -x ELSE x

Min(a, b) == IF a <= b THEN a ELSE b

RECURSIVE Gcd(_, _)
Gcd(a, b) == IF b = 0 THEN a ELSE Gcd(b, a % b)

RECURSIVE Pow2(_)
Pow2(e) == IF e = 0 THEN 1 ELSE 2 * Pow2(e - 1)

NaN == [n |-> 0, d |-> 0]

IsNaN(a) == a.d = 0

\* the rational n/d in lowest terms, d /= 0
R(n, d) ==
    LET s == IF d < 0 THEN -1 ELSE 1
        g == Gcd(Abs(n), Abs(d))
    IN  IF d = 0 THEN NaN ELSE [n |-> (s * n) \div g, d |-> (s * d) \div g]

RInt(i) == [n |-> i, d |-> 1]

RNeg(a) == [n |-> -a.n, d |-> a.d]

RAdd(a, b) ==
    IF IsNaN(a) \/ IsNaN(b) THEN NaN
    ELSE LET g == Gcd(a.d, b.d)
         IN  R(a.n * (b.d \div g) + b.n * (a.d \div g), (a.d \div g) * b.d)

RSub(a, b) == RAdd(a, RNeg(b))

RMul(a, b) ==
    IF IsNaN(a) \/ IsNaN(b) THEN NaN
    ELSE LET g1 == Gcd(Abs(a.n), b.d)
             g2 == Gcd(Abs(b.n), a.d)
         IN  R((a.n \div g1) * (b.n \div g2), (a.d \div g2) * (b.d \div g1))

\* x / 0.0 is NaN for x = 0; the code reaches no other division by zero
\* without raising (Python raises on a float division by zero, numpy gives
\* NaN for 0/0)
RDiv(a, b) ==
    IF IsNaN(a) \/ IsNaN(b) \/ b.n = 0 THEN NaN
    ELSE RMul(a, IF b.n < 0 THEN [n |-> -b.d, d |-> -b.n] ELSE [n |-> b.d, d |-> b.n])

RAbs(a) == [n |-> Abs(a.n), d |-> a.d]

\* a <= b; false when either is NaN, as every IEEE comparison with NaN
RLeq(a, b) ==
    /\ ~IsNaN(a) /\ ~IsNaN(b)
    /\ LET g == Gcd(a.d, b.d) IN a.n * (b.d \div g) <= b.n * (a.d \div g)

RLess(a, b) ==
    /\ ~IsNaN(a) /\ ~IsNaN(b)
    /\ LET g == Gcd(a.d, b.d) IN a.n * (b.d \div g) < b.n * (a.d \div g)

\* math.floor
RFloor(a) == a.n \div a.d

----------------------------------------------------------------------------
(* wavetable/wavetable.py: the band-limited table builder *)

TABLE_SIZE == Pow2(TableBits)

SAMPLE_RATE == 44100

NYQUIST == RDiv(RInt(SAMPLE_RATE), RInt(2))

MAX_PARTIALS == TABLE_SIZE \div 2

SINE == 0

TRIANGLE == 1

SAWTOOTH == 2

SQUARE == 3

TableIndex == 0 .. (TABLE_SIZE - 1)

\* t = np.linspace(0, 1, num=TABLE_SIZE): TABLE_SIZE points, both ends included
Linspace(i) == R(i, TABLE_SIZE - 1)

\* sin(2 pi p) for p = m/dd in [0, 1/2], by Bhaskara's rational approximation
\* 16x(pi - x) / (5 pi^2 - 4x(pi - x)), rounded down to a multiple of 1/SinScale
SinHalfCycle(m, dd) ==
    R((SinScale * 32 * m * (dd - 2 * m)) \div (5 * dd * dd - 8 * m * (dd - 2 * m)), SinScale)

\* np.sin(2 * np.pi * p), p a rational number of cycles
NpSin(p) ==
    LET m  == p.n % p.d
        dd == p.d
    IN  IF 2 * m <= dd THEN SinHalfCycle(m, dd)
        ELSE RNeg(SinHalfCycle(2 * m - dd, 2 * dd))

ZeroTable == [i \in TableIndex |-> RInt(0)]

RECURSIVE MaxAbsUpTo(_, _)
MaxAbsUpTo(arr, i) ==
    IF i = 0 THEN RAbs(arr[0])
    ELSE LET rest == MaxAbsUpTo(arr, i - 1)
         IN  IF IsNaN(rest) \/ IsNaN(arr[i]) THEN NaN
             ELSE IF RLess(rest, RAbs(arr[i])) THEN RAbs(arr[i]) ELSE rest

\* np.max(np.abs(arr), axis=0)
MaxAbs(arr) == MaxAbsUpTo(arr, TABLE_SIZE - 1)

\* normalize that leaves the array as it is
normalize_Skipped(arr) == arr

\* utils.normalize: arr /= np.max(np.abs(arr), axis=0)
normalize(arr) == [i \in DOMAIN arr |-> RDiv(arr[i], MaxAbs(arr))]

\* the partial count rounded up instead of down
NumPartialsOf_RoundedUp(nyquist, fq, max_partials) ==
    Min(RFloor(RDiv(nyquist, fq)) + 1, max_partials)

\* num_partials = min(int(floor(NYQUIST / fq)), MAX_PARTIALS), as a function of
\* the three numbers it reads
NumPartialsOf(nyquist, fq, max_partials) == Min(RFloor(RDiv(nyquist, fq)), max_partials)

num_partials(fq) == NumPartialsOf(NYQUIST, fq, MAX_PARTIALS)

\* One partial as the loops subtract it, in units of 1/pi (every term of every
\* table carries the factor 1/pi, which normalize cancels):
\* np.sin(2 * np.pi * k * t) / (c * np.pi), at table index i
Partial(k, c, i) == RDiv(NpSin(RMul(RInt(k), Linspace(i))), RInt(c))

\* The state of a harmonic loop: the table so far, the triangle's alt, and
\* (for the record) the harmonics subtracted with the alt each was given.
LoopStart == [table |-> ZeroTable, alt |-> -1, partials |-> <<>>]

\* _triangle: the body of `for j in range(num_partials)`
TriangleStep(acc, j) ==
    LET k   == j + 1
        alt == acc.alt * (-1)
    IN  IF k % 2 = 0 THEN acc
        ELSE [table    |-> [i \in TableIndex |-> RSub(acc.table[i], Partial(k, alt * k * k, i))],
              alt      |-> alt,
              partials |-> Append(acc.partials, [k |-> k, alt |-> alt])]

\* _sawtooth: the body of `for j in range(num_partials)`
SawtoothStep(acc, j) ==
    LET k == j + 1
    IN  [table    |-> [i \in TableIndex |-> RSub(acc.table[i], Partial(k, k, i))],
         alt      |-> acc.alt,
         partials |-> Append(acc.partials, [k |-> k, alt |-> 1])]

\* the square loop without its `continue` on even k
SquareStep_NoSkip(acc, j) == SawtoothStep(acc, j)

\* _square: the body of `for j in range(num_partials)`
SquareStep(acc, j) ==
    LET k == j + 1
    IN  IF k % 2 = 0 THEN acc
        ELSE [table    |-> [i \in TableIndex |-> RSub(acc.table[i], Partial(k, k, i))],
              alt      |-> acc.alt,
              partials |-> Append(acc.partials, [k |-> k, alt |-> 1])]

HarmonicStep(wavetype, acc, j) ==
    IF wavetype = TRIANGLE THEN TriangleStep(acc, j)
    ELSE IF wavetype = SAWTOOTH THEN SawtoothStep(acc, j)
    ELSE SquareStep(acc, j)

\* for j in range(n): the loop run for j = 0 .. n-1 (no pass when n <= 0)
RECURSIVE HarmonicLoop(_, _)
HarmonicLoop(wavetype, n) ==
    IF n <= 0 THEN LoopStart
    ELSE HarmonicStep(wavetype, HarmonicLoop(wavetype, n - 1), n - 1)

\* _sine, before normalize
SineRaw == [i \in TableIndex |-> NpSin(Linspace(i))]

\* _sine
Sine == normalize(SineRaw)

\* What a call of build gives: the table returned (status "ok") or the exception
\* raised; with it, for the record, the sum before normalize, num_partials and
\* the harmonics summed.
Raised(what) ==
    [status |-> what, table |-> <<>>, raw |-> <<>>, num_partials |-> 0, partials |-> <<>>]

\* _triangle, _sawtooth, _square: NYQUIST / fq raises ZeroDivisionError for fq = 0
Harmonic(wavetype, fq) ==
    IF fq.n = 0 THEN Raised("ZeroDivisionError")
    ELSE LET n   == num_partials(fq)
             acc == HarmonicLoop(wavetype, n)
         IN  [status |-> "ok", table |-> normalize(acc.table), raw |-> acc.table,
              num_partials |-> n, partials |-> acc.partials]

\* build that falls back to the sine table for a wave type it does not know
build_DefaultSine(wavetype, fq) ==
    IF wavetype \in {TRIANGLE, SAWTOOTH, SQUARE} THEN Harmonic(wavetype, fq)
    ELSE [status |-> "ok", table |-> Sine, raw |-> SineRaw, num_partials |-> 0,
          partials |-> <<>>]

\* build(wavetype, fq)
build(wavetype, fq) ==
    IF wavetype = SINE THEN
        [status |-> "ok", table |-> Sine, raw |-> SineRaw, num_partials |-> 0,
         partials |-> <<>>]
    ELSE IF wavetype \in {TRIANGLE, SAWTOOTH, SQUARE} THEN Harmonic(wavetype, fq)
    ELSE Raised("Exception")

----------------------------------------------------------------------------
(* Callers of build: the wave types and frequencies tried *)

\* the four wave types and one value that is none of them
BuildWaveTypes == {SINE, TRIANGLE, SAWTOOTH, SQUARE, 4}

\* frequencies in Hz: 43.65 (the oscillators' test tone), values around the
\* points where floor(NYQUIST / fq) changes, values above NYQUIST, 0 and a
\* negative one
BuildFreqs ==
    {R(873, 20), R(11025, 4), R(11025, 2), R(22050, 1), R(22051, 1), R(30000, 1),
     R(0, 1), R(-100, 1)}
    \cup {R(f, 1) : f \in {1, 100, 1000, 3675, 4409, 4410, 4411, 5512, 5513, 7350, 7351,
                           11025, 11026, 22049, 44100}}

NoBuild == [wavetype |-> -1, fq |-> RInt(0), result |-> Raised("none")]

\* the rest of the program idle: no oscillator built, no buffer allocated
NoOsc == [freq |-> RInt(0), incr |-> RInt(0), level |-> RInt(0)]

OscIdle ==
    /\ ss_osc = NoOsc /\ rs_osc = NoOsc /\ rt_osc = NoOsc
    /\ bufs = <<>> /\ initial = <<>> /\ rendered = <<>>

NoCall == [filter |-> "", status |-> "none", input |-> <<>>, before |-> <<>>,
           after |-> <<>>, hx |-> <<>>, hy |-> <<>>]

BiquadIdle ==
    /\ heap = <<>> /\ filt = <<>> /\ stream = <<>> /\ lastCall = NoCall /\ writes = 0

NoAllpass == [b0 |-> RInt(0), a1 |-> RInt(0)]

NoAllpassCall == [status |-> "none", calls |-> 0, before |-> <<>>, trace |-> <<>>]

AllpassIdle ==
    /\ apf = NoAllpass /\ apbuf = [input |-> <<>>, output |-> <<>>]
    /\ apcall = NoAllpassCall

InitTable == built = NoBuild /\ OscIdle /\ BiquadIdle /\ AllpassIdle

\* a caller builds a table
Build(wavetype, fq) ==
    /\ built' = [wavetype |-> wavetype, fq |-> fq, result |-> build(wavetype, fq)]
    /\ UNCHANGED <<oscVars, biquadVars, allpassVars>>

NextTable == \E wavetype \in BuildWaveTypes, fq \in BuildFreqs : Build(wavetype, fq)

SpecTable == InitTable /\ [][NextTable]_vars

----------------------------------------------------------------------------
(* Properties of the table builder *)

Harmonics == {TRIANGLE, SAWTOOTH, SQUARE}

BuiltHarmonic == built.result.status = "ok" /\ built.wavetype \in Harmonics

\* the harmonics k a built table sums
SummedK == {built.result.partials[j].k : j \in DOMAIN built.result.partials}

\* C8: a triangle, sawtooth or square table built for frequency f has
\* num_partials = min(floor((SAMPLE_RATE/2) / f), TABLE_SIZE/2), that is, the
\* largest n <= TABLE_SIZE/2 with n <= NYQUIST/f; every harmonic k summed has
\* k * f <= SAMPLE_RATE/2 and k <= TABLE_SIZE/2; and at the code's own sizes
\* (44100 Hz, 4096 samples) a table for 43.65 Hz has 505 partials.
C8_NumPartials ==
    /\ NumPartialsOf(R(44100, 2), R(4365, 100), 4096 \div 2) = 505
    /\ BuiltHarmonic =>
          LET n == built.result.num_partials
              x == RDiv(R(SAMPLE_RATE, 2), built.fq)
          IN  /\ n <= TABLE_SIZE \div 2
              /\ RLeq(RInt(n), x)
              /\ n < TABLE_SIZE \div 2 => RLess(x, RInt(n + 1))
              /\ \A k \in SummedK :
                    /\ RLeq(RMul(RInt(k), built.fq), R(SAMPLE_RATE, 2))
                    /\ k <= TABLE_SIZE \div 2

\* C8 witness: a sawtooth table whose partial count is the floor, below the cap,
\* with all its partials summed
C8_Witness ==
    /\ BuiltHarmonic /\ built.wavetype = SAWTOOTH
    /\ built.result.num_partials = 3 /\ Len(built.result.partials) = 3
    /\ MAX_PARTIALS > 3

\* the harmonic sum of the built table is not zero everywhere
SumNotAllZero == \E i \in TableIndex : built.result.raw[i] /= RInt(0)

\* C9: every table build returns whose harmonic sum is not all zero is
\* normalized: some sample has absolute value exactly 1 and every sample lies
\* in [-1, 1].
C9_Normalized ==
    (built.result.status = "ok" /\ SumNotAllZero) =>
        /\ \E i \in TableIndex : RAbs(built.result.table[i]) = RInt(1)
        /\ \A i \in TableIndex : RLeq(RAbs(built.result.table[i]), RInt(1))

\* C9 witness: a built triangle table whose sum before normalize had a maximum
\* other than 1
C9_Witness ==
    /\ built.result.status = "ok" /\ built.wavetype = TRIANGLE /\ SumNotAllZero
    /\ built.result.raw /= built.result.table

Odd(k) == k % 2 = 1

\* C10: the sawtooth builder sums every k in 1..num_partials; the square and
\* triangle builders sum exactly the odd k in 1..num_partials, each once, in
\* increasing order; the triangle's alt is +1 for k = 1 and changes sign from
\* each odd harmonic to the next.
C10_HarmonicSelection ==
    BuiltHarmonic =>
        LET n  == built.result.num_partials
            ps == built.result.partials
        IN  /\ \A j \in DOMAIN ps : j > 1 => ps[j - 1].k < ps[j].k
            /\ built.wavetype = SAWTOOTH => SummedK = 1 .. n
            /\ built.wavetype \in {SQUARE, TRIANGLE} =>
                  SummedK = {k \in 1 .. n : Odd(k)}
            /\ built.wavetype = TRIANGLE =>
                  \A j \in DOMAIN ps :
                     ps[j].alt = IF j = 1 THEN 1 ELSE -ps[j - 1].alt

\* C10 witness: a triangle and a square table with two odd harmonics each, an
\* even one skipped in between
C10_Witness ==
    /\ BuiltHarmonic /\ built.wavetype \in {SQUARE, TRIANGLE}
    /\ built.result.num_partials >= 3
    /\ Len(built.result.partials) >= 2

BuiltSine == built.result.status = "ok" /\ built.wavetype = SINE

\* C11, as claimed: the sine table samples one cycle over the half-open interval
\* [0, 1): sample i is sin(2 pi t) at t = i / TABLE_SIZE, and no sampling
\* position is t = 1.
C11_HalfOpenSampling ==
    BuiltSine =>
        /\ \A i \in TableIndex : built.result.raw[i] = NpSin(R(i, TABLE_SIZE))
        /\ \A i \in TableIndex : Linspace(i) = R(i, TABLE_SIZE)
        /\ \A i \in TableIndex : Linspace(i) /= RInt(1)

\* C12, as claimed: for every index i of the sine table,
\* table[i] = -table[(i + TABLE_SIZE/2) mod TABLE_SIZE].
C12_HalfCycleSymmetry ==
    BuiltSine =>
        \A i \in TableIndex :
            built.result.table[i] =
                RNeg(built.result.table[(i + TABLE_SIZE \div 2) % TABLE_SIZE])

\* C13: build called with a wave type other than SINE, TRIANGLE, SAWTOOTH and
\* SQUARE raises an exception and returns no table, whatever the frequency.
C13_UnrecognizedWaveType ==
    (built /= NoBuild /\ built.wavetype \notin {SINE, TRIANGLE, SAWTOOTH, SQUARE}) =>
        /\ built.result.status = "Exception"
        /\ built.result.table = <<>>

\* C13 witness: build was called with wave type 4 and a frequency a harmonic
\* table can be built for, and raised
C13_Witness ==
    /\ built.wavetype = 4 /\ built.fq = R(873, 20)
    /\ built.result.status = "Exception"

----------------------------------------------------------------------------
(* dsp/wavetable/oscillators.py *)

\* pow(2, detune / 1200.0).  Exact for whole octaves; for the other detunes the
\* callers use, the ratio of small integers within 2 cents of it (204 cents:
\* 1.12506 ~ 9/8; 702 cents: 1.49999 ~ 3/2; 386 cents: 1.24979 ~ 5/4).
Pow2Cents(detune) ==
    CASE detune = 0     -> R(1, 1)
      [] detune = 1200  -> R(2, 1)
      [] detune = -1200 -> R(1, 2)
      [] detune = 204   -> R(9, 8)
      [] detune = 702   -> R(3, 2)
      [] detune = 386   -> R(5, 4)

RECURSIVE BitAnd(_, _)
\* x & mask on non-negative integers
BitAnd(x, mask) ==
    IF x = 0 \/ mask = 0 THEN 0
    ELSE (x % 2) * (mask % 2) + 2 * BitAnd(x \div 2, mask \div 2)

\* StandardOscillator.__init__ (44100.0 is written out in the code)
StandardOscillator(wavetype, freq, detune, level) ==
    LET detune_ratio      == Pow2Cents(detune)
        fq                == RMul(freq, detune_ratio)
        cycles_per_sample == RDiv(fq, RInt(SAMPLE_RATE))
    IN  [freq  |-> fq,
         incr  |-> RMul(cycles_per_sample, RInt(TABLE_SIZE)),
         level |-> level,
         table |-> build(wavetype, freq).table]

\* ResamplingOscillator.__init__
ResamplingOscillator(wavetype, freq, detune, level) ==
    LET cycles_per_sample == RDiv(freq, RInt(SAMPLE_RATE))
    IN  [freq      |-> freq,
         detune    |-> detune,
         incr      |-> RMul(cycles_per_sample, RInt(TABLE_SIZE)),
         level     |-> level,
         _standard |-> StandardOscillator(wavetype, freq, 0, level)]

\* RealTimeResamplingOscillator.__init__
RealTimeResamplingOscillator(wavetype, freq, detune, level) ==
    LET cycles_per_sample == RDiv(freq, RInt(SAMPLE_RATE))
    IN  [freq   |-> freq,
         detune |-> detune,
         incr   |-> RMul(cycles_per_sample, RInt(TABLE_SIZE)),
         level  |-> level,
         table  |-> build(wavetype, freq).table]

\* (inv_alpha * left) + (alpha * right), inv_alpha = 1.0 - alpha
Lerp(alpha, left, right) ==
    RAdd(RMul(RSub(RInt(1), alpha), left), RMul(alpha, right))

\* buf[i] = sample: the store that forgets what the buffer held
Accumulate_Overwrite(old, sample) == sample

\* buf[i] += sample
Accumulate(old, sample) == RAdd(old, sample)

\* A buffer of n samples is the sequence buf[1..n]; the code's buf[i] is
\* buf[i + 1].
Store(buf, i, sample) == [buf EXCEPT ![i + 1] = Accumulate(buf[i + 1], sample)]

\* np.zeros(n)
Zeros(n) == [j \in 1 .. n |-> RInt(0)]

\* the pass with alpha = index - float(read_index_wrapped_left)
StandardRead_AlphaFromWrapped(osc, i) ==
    LET index      == RMul(RInt(i), osc.incr)
        read_index == RFloor(index)
        mask       == TABLE_SIZE - 1
        l          == BitAnd(read_index, mask)
        r          == BitAnd(read_index + 1, mask)
        alpha      == RSub(index, RInt(l))
    IN  [left |-> l, right |-> r, alpha |-> alpha,
         out  |-> RMul(Lerp(alpha, osc.table[l], osc.table[r]), osc.level)]

\* StandardOscillator.render, one pass of the loop up to the accumulation: the
\* two table indices read, the weight, and sample * self.level
StandardRead(osc, i) ==
    LET index      == RMul(RInt(i), osc.incr)
        read_index == RFloor(index)
        mask       == TABLE_SIZE - 1
        l          == BitAnd(read_index, mask)
        r          == BitAnd(read_index + 1, mask)
        alpha      == RSub(index, RInt(read_index))
    IN  [left |-> l, right |-> r, alpha |-> alpha,
         out  |-> RMul(Lerp(alpha, osc.table[l], osc.table[r]), osc.level)]

\* StandardOscillator.render: for i in range(buf.size), the passes i = 0 .. n-1
RECURSIVE StandardLoop(_, _, _)
StandardLoop(osc, buf, n) ==
    IF n = 0 THEN buf
    ELSE Store(StandardLoop(osc, buf, n - 1), n - 1, StandardRead(osc, n - 1).out)

StandardRender(osc, buf) == StandardLoop(osc, buf, Len(buf))

\* ResamplingOscillator.render, first stage: the undetuned intermediate buffer
Intermediate(osc, size) == StandardRender(osc._standard, Zeros(size))

\* ResamplingOscillator.render, second stage, one pass up to the break: the two
\* indices into the intermediate buffer, the weight, and whether the pass
\* breaks out of the loop
ResamplingIndex(osc, size, i) ==
    LET playback_rate  == Pow2Cents(osc.detune)
        playback_index == RMul(RInt(i), playback_rate)
        read_index     == RFloor(playback_index)
        l              == read_index
        r              == read_index + 1
    IN  [left |-> l, right |-> r,
         alpha |-> RSub(playback_index, RInt(read_index)),
         stop  |-> l >= size \/ r >= size]

\* ResamplingOscillator.render, second stage, one pass that does not break: the
\* sample it adds
ResamplingRead(osc, intermediate, i) ==
    LET rd == ResamplingIndex(osc, Len(intermediate), i)
    IN  Lerp(rd.alpha, intermediate[rd.left + 1], intermediate[rd.right + 1])

\* the second stage without its break: an endpoint past the end of the
\* intermediate buffer wraps around to its start
RECURSIVE ResamplingLoop_Wraps(_, _, _, _)
ResamplingLoop_Wraps(osc, intermediate, buf, i) ==
    IF i >= Len(buf) THEN buf
    ELSE LET rd == ResamplingIndex(osc, Len(buf), i)
             l  == intermediate[(rd.left % Len(buf)) + 1]
             r  == intermediate[(rd.right % Len(buf)) + 1]
         IN  ResamplingLoop_Wraps(osc, intermediate,
                                  Store(buf, i, Lerp(rd.alpha, l, r)), i + 1)

\* ResamplingOscillator.render, second stage: the loop from pass i on, ended by
\* the break
RECURSIVE ResamplingLoop(_, _, _, _)
ResamplingLoop(osc, intermediate, buf, i) ==
    IF i >= Len(buf) THEN buf
    ELSE IF ResamplingIndex(osc, Len(buf), i).stop THEN buf
    ELSE ResamplingLoop(osc, intermediate,
                        Store(buf, i, ResamplingRead(osc, intermediate, i)), i + 1)

ResamplingRender(osc, buf) ==
    ResamplingLoop(osc, Intermediate(osc, Len(buf)), buf, 0)

\* RealTimeResamplingOscillator.render: E[x], the sample of what would be the
\* intermediate buffer, derived from the table
RealTimeE(osc, x) ==
    LET table_rate == osc.incr
        mask       == TABLE_SIZE - 1
        a          == RFloor(RMul(table_rate, RInt(x)))
        b          == a + 1
        alpha      == RSub(RMul(table_rate, RInt(x)), RInt(a))
        beta       == RSub(RInt(1), alpha)
    IN  RAdd(RMul(beta, osc.table[BitAnd(a, mask)]),
             RMul(alpha, osc.table[BitAnd(b, mask)]))

\* si scaled by the level twice
RealTimeRead_LevelTwice(osc, i) ==
    LET playback_pointer == RMul(RInt(i), Pow2Cents(osc.detune))
        x                == RFloor(playback_pointer)
        theta            == RSub(playback_pointer, RInt(x))
        omega            == RSub(RInt(1), theta)
        si == RAdd(RMul(omega, RMul(RealTimeE(osc, x), osc.level)),
                   RMul(theta, RMul(RealTimeE(osc, x + 1), osc.level)))
    IN  RMul(si, osc.level)

\* RealTimeResamplingOscillator.render, one pass: si * self.level
RealTimeRead(osc, i) ==
    LET playback_rate    == Pow2Cents(osc.detune)
        playback_pointer == RMul(RInt(i), playback_rate)
        x                == RFloor(playback_pointer)
        y                == x + 1
        theta            == RSub(playback_pointer, RInt(x))
        omega            == RSub(RInt(1), theta)
        ex               == RealTimeE(osc, x)
        ey               == RealTimeE(osc, y)
        si               == RAdd(RMul(omega, ex), RMul(theta, ey))
    IN  RMul(si, osc.level)

RECURSIVE RealTimeLoop(_, _, _)
RealTimeLoop(osc, buf, n) ==
    IF n = 0 THEN buf
    ELSE Store(RealTimeLoop(osc, buf, n - 1), n - 1, RealTimeRead(osc, n - 1))

RealTimeRender(osc, buf) == RealTimeLoop(osc, buf, Len(buf))

----------------------------------------------------------------------------
(* A caller of the oscillators, after oscillators.py's __main__ and main.py:  *)
(* it builds one oscillator of each class from the same arguments, allocates  *)
(* buffers of one size and renders oscillators into them.                     *)

\* the closed-form table and a summed one (the oscillators read every table
\* the same way)
OscWaveTypes == {SINE, SAWTOOTH}

\* tones that step through the (small) table at 1/4, 4/3 and more than 5
\* entries a sample; the first has more harmonics below NYQUIST than the table
\* takes (as the callers' 43.65 Hz), the last is above NYQUIST and wraps around
\* the table within a few samples
OscFreqs == {R(11025, 8), R(7350, 1), R(30000, 1)}

OscDetunes == {-1200, 0, 204, 1200}

OscLevels == {R(0, 1), R(1, 2)}

BufNames == {"a", "b"}

OscNames == {"ss", "rs", "rt"}

\* what a caller's buffer holds before any render: silence, or a ramp
Fills(size) == {Zeros(size), [j \in 1 .. size |-> RInt(j)]}

InitOsc ==
    /\ built = NoBuild /\ BiquadIdle /\ AllpassIdle
    /\ \E wavetype \in OscWaveTypes, freq \in OscFreqs, detune \in OscDetunes,
          level \in OscLevels :
          /\ ss_osc = StandardOscillator(wavetype, freq, detune, level)
          /\ rs_osc = ResamplingOscillator(wavetype, freq, detune, level)
          /\ rt_osc = RealTimeResamplingOscillator(wavetype, freq, detune, level)
    /\ \E size \in 0 .. MaxBufSize : \E fill \in Fills(size) :
          /\ bufs = [b \in BufNames |-> fill]
          /\ initial = [b \in BufNames |-> fill]
    /\ rendered = [b \in BufNames |-> <<>>]

Renders == Len(rendered["a"]) + Len(rendered["b"])

\* a render call that leaves every oscillator's increment doubled
RenderInto_MovesIncr(o, b, out) ==
    /\ Renders < MaxRenders
    /\ bufs' = [bufs EXCEPT ![b] = out]
    /\ rendered' = [rendered EXCEPT ![b] = Append(@, o)]
    /\ ss_osc' = [ss_osc EXCEPT !.incr = RAdd(@, @)]
    /\ rs_osc' = [rs_osc EXCEPT !._standard.incr = RAdd(@, @)]
    /\ rt_osc' = [rt_osc EXCEPT !.incr = RAdd(@, @)]
    /\ UNCHANGED <<built, initial, biquadVars, allpassVars>>

\* a render call by oscillator o on buffer b that leaves out in the buffer: the
\* buffer is all a render writes
RenderInto(o, b, out) ==
    /\ Renders < MaxRenders
    /\ bufs' = [bufs EXCEPT ![b] = out]
    /\ rendered' = [rendered EXCEPT ![b] = Append(@, o)]
    /\ UNCHANGED <<built, ss_osc, rs_osc, rt_osc, initial, biquadVars, allpassVars>>

\* ss_osc.render(b)
RenderStandard(b) == RenderInto("ss", b, StandardRender(ss_osc, bufs[b]))

\* rs_osc.render(b)
RenderResampling(b) == RenderInto("rs", b, ResamplingRender(rs_osc, bufs[b]))

\* rt_osc.render(b)
RenderRealTime(b) == RenderInto("rt", b, RealTimeRender(rt_osc, bufs[b]))

NextOsc ==
    \E b \in BufNames :
        \/ RenderStandard(b)
        \/ RenderResampling(b)
        \/ RenderRealTime(b)

SpecOsc == InitOsc /\ [][NextOsc]_vars

\* utils.trim: n = floor(arr.size / amt); arr[n:] = 0.0
trim(arr, amt) ==
    LET n == RFloor(RDiv(RInt(Len(arr)), amt))
    IN  [j \in 1 .. Len(arr) |-> IF j - 1 >= n THEN RInt(0) ELSE arr[j]]

\* trim(b, pow(2, detune / 1200.0)), as oscillators.py's __main__ calls it on a
\* buffer it has rendered into, once
Trim(b) ==
    /\ rendered[b] /= <<>>
    /\ \A j \in DOMAIN rendered[b] : rendered[b][j] /= "trim"
    /\ bufs' = [bufs EXCEPT ![b] = trim(@, Pow2Cents(rt_osc.detune))]
    /\ rendered' = [rendered EXCEPT ![b] = Append(@, "trim")]
    /\ UNCHANGED <<built, ss_osc, rs_osc, rt_osc, initial, biquadVars, allpassVars>>

\* oscillators.py's __main__: the resampling and the real-time oscillator
\* rendered, buffers trimmed
NextTrim ==
    \E b \in BufNames :
        \/ RenderResampling(b)
        \/ RenderRealTime(b)
        \/ Trim(b)

SpecTrim == InitOsc /\ [][NextTrim]_vars

----------------------------------------------------------------------------
(* Properties of the oscillators *)

BufSize == Len(bufs["a"])

BufIndex == 0 .. (BufSize - 1)

\* the buffer element the code calls b[i]
At(b, i) == bufs[b][i + 1]

InitialAt(b, i) == initial[b][i + 1]

\* the indices a ResamplingOscillator render of the current buffers writes: the
\* passes before the first break
ResamplingWrites ==
    {i \in BufIndex : \A j \in 0 .. i : ~ResamplingIndex(rs_osc, BufSize, j).stop}

\* C1: with a ResamplingOscillator rendered into one buffer and a
\* RealTimeResamplingOscillator of the same arguments into another that held
\* the same contents, the two buffers agree at every index i with
\* floor(i * playbackRate) + 1 < size, which are the indices the Resampling
\* render writes.
C1_Equivalence ==
    \A x, y \in BufNames :
        (rendered[x] = <<"rs">> /\ rendered[y] = <<"rt">>) =>
            \A i \in BufIndex :
                (RFloor(RMul(RInt(i), Pow2Cents(rs_osc.detune))) + 1 < BufSize
                    \/ i \in ResamplingWrites)
                => At(x, i) = At(y, i)

\* C1 witness: both renders done at a detune whose playback rate is no
\* integer, index 1 written by both with a sample that is a number other than
\* 0, and a tail index that only the real-time render wrote
C1_Witness ==
    /\ rendered = [b \in BufNames |-> IF b = "a" THEN <<"rs">> ELSE <<"rt">>]
    /\ rs_osc.detune = 204 /\ BufSize >= 3
    /\ 1 \in ResamplingWrites
    /\ ~IsNaN(At("a", 1)) /\ At("a", 1) /= InitialAt("a", 1)
    /\ At("a", 1) = At("b", 1)
    /\ At("a", BufSize - 1) /= At("b", BufSize - 1)

\* what render call o adds to a buffer of the current size: per element,
\* whether the call writes it and the sample it adds
Contribution(o) ==
    CASE o = "ss" ->
            [j \in 1 .. BufSize |->
                [written |-> TRUE, sample |-> StandardRead(ss_osc, j - 1).out]]
      [] o = "rt" ->
            [j \in 1 .. BufSize |->
                [written |-> TRUE, sample |-> RealTimeRead(rt_osc, j - 1)]]
      [] o = "rs" ->
            LET im == Intermediate(rs_osc, BufSize)
                w  == ResamplingWrites
            IN  [j \in 1 .. BufSize |->
                    IF j - 1 \in w
                    THEN [written |-> TRUE, sample |-> ResamplingRead(rs_osc, im, j - 1)]
                    ELSE [written |-> FALSE, sample |-> RInt(0)]]

\* the initial contents of buffer b plus, element by element, the samples of
\* the first n render calls made on b
AddWritten(buf, c) ==
    [j \in 1 .. BufSize |-> IF c[j].written THEN RAdd(buf[j], c[j].sample) ELSE buf[j]]

RECURSIVE Mixed(_, _)
Mixed(b, n) ==
    IF n = 0 THEN initial[b]
    ELSE AddWritten(Mixed(b, n - 1), Contribution(rendered[b][n]))

\* C6: render accumulates: after any sequence of render calls on a buffer,
\* every element is its initial value plus the sample of each call that wrote
\* that index, with no clamping; after oscillator A then oscillator B that is
\* initial + A's sample + B's sample.
C6_Accumulates ==
    \A b \in BufNames : bufs[b] = Mixed(b, Len(rendered[b]))

\* C6 witness: a standard and then a resampling oscillator rendered into a
\* buffer that held a ramp, each adding a number other than 0 at index 1, the
\* result outside [-1, 1]
C6_Witness ==
    /\ rendered["a"] = <<"ss", "rs">> /\ BufSize >= 3
    /\ InitialAt("a", 1) = RInt(2)
    /\ 1 \in ResamplingWrites
    /\ ~IsNaN(At("a", 1))
    /\ Contribution("ss")[2].sample /= RInt(0)
    /\ Contribution("rs")[2].sample /= RInt(0)
    /\ RLess(RInt(1), At("a", 1))

\* C7, as claimed: with level = 0 every render leaves every element of the
\* buffer at its value before the call.
C7_LevelZeroNoOp ==
    ss_osc.level = RInt(0) => \A b \in BufNames : bufs[b] = initial[b]

\* C14, as claimed: with both buffers zeroed before the renders, the real-time
\* output trimmed by trim(rt, playbackRate) equals the untrimmed resampling
\* output at every index, and the indices the resampling render writes are
\* exactly those below floor(size / playbackRate).
C14_TrimEquivalence ==
    \A x, y \in BufNames :
        (/\ rendered[x] = <<"rs">> /\ rendered[y] = <<"rt", "trim">>
         /\ initial[x] = Zeros(BufSize) /\ initial[y] = Zeros(BufSize))
        => /\ bufs[x] = bufs[y]
           /\ ResamplingWrites =
                 {i \in BufIndex :
                     i < RFloor(RDiv(RInt(BufSize), Pow2Cents(rs_osc.detune)))}

\* the first pass of the resampling render's second stage that breaks, or the
\* buffer size when none does
FirstStop ==
    LET stops == {i \in BufIndex : ResamplingIndex(rs_osc, BufSize, i).stop}
    IN  IF stops = {} THEN BufSize
        ELSE CHOOSE i \in stops : \A j \in stops : i <= j

\* C15: a resampling render reads the intermediate buffer only at indices in
\* 0 .. size-1, adds to buffer[i] the interpolation of the two samples at
\* floor(i * playbackRate) and the next index for every i before the first one
\* with an endpoint outside the intermediate buffer, and leaves that element
\* and every later one as they were.
C15_StopsAtEnd ==
    \A b \in BufNames :
        rendered[b] = <<"rs">> =>
            LET im == Intermediate(rs_osc, BufSize)
            IN  \A i \in BufIndex :
                    LET rd == ResamplingIndex(rs_osc, BufSize, i)
                    IN  IF i < FirstStop
                        THEN /\ rd.left \in BufIndex /\ rd.right \in BufIndex
                             /\ rd.left = RFloor(RMul(RInt(i), Pow2Cents(rs_osc.detune)))
                             /\ rd.right = rd.left + 1
                             /\ At(b, i) = RAdd(InitialAt(b, i),
                                                Lerp(rd.alpha, im[rd.left + 1], im[rd.right + 1]))
                        ELSE At(b, i) = InitialAt(b, i)

\* C15 witness: a resampling render into a ramp that wrote index 1 with a
\* number other than 0 and stopped at index 2, where the intermediate buffer
\* holds samples other than 0 that a wrapped read would have added
C15_Witness ==
    /\ rendered["a"] = <<"rs">> /\ BufSize = 3 /\ rs_osc.detune = 204
    /\ FirstStop = 2
    /\ ~IsNaN(At("a", 1)) /\ At("a", 1) /= InitialAt("a", 1)
    /\ At("a", 2) = RInt(3)
    /\ Intermediate(rs_osc, BufSize)[2] /= RInt(0)

\* C20: a render call changes no field of any oscillator; every render starts
\* reading at table position 0 with weight 0; and buffers of equal length and
\* equal initial contents that the same oscillators were rendered into in the
\* same order are equal.
C20_Deterministic ==
    [][/\ ss_osc' = ss_osc /\ rs_osc' = rs_osc /\ rt_osc' = rt_osc
       /\ StandardRead(ss_osc', 0).left = 0
       /\ StandardRead(ss_osc', 0).alpha = RInt(0)
       /\ StandardRead(rs_osc'._standard, 0).left = 0
       /\ \A x, y \in BufNames :
              (rendered'[x] = rendered'[y] /\ initial'[x] = initial'[y])
              => bufs'[x] = bufs'[y]]_vars

\* C20 witness: the standard oscillator rendered twice, into two buffers that
\* held the same ramp, each buffer changed at index 1 and the two equal
C20_Witness ==
    /\ rendered = [b \in BufNames |-> <<"ss">>]
    /\ BufSize >= 2 /\ InitialAt("a", 1) = RInt(2)
    /\ ~IsNaN(At("a", 1)) /\ At("a", 1) /= InitialAt("a", 1)
    /\ bufs["a"] = bufs["b"]

----------------------------------------------------------------------------
(* dsp/filters/biquad.py: BiquadFilter *)

(* numpy arrays.  An array owns its samples (heap[name]); a basic slice of an *)
(* array, such as buf[-2:], is a view: it names the array and the stretch of  *)
(* it that it shows, and reads and writes go to the array.                    *)

\* the view of len samples of array arr from offset lo (0-based)
View(arr, lo, len) == [arr |-> arr, lo |-> lo, len |-> len]

\* the samples a view shows, in heap h
Deref(h, v) == [j \in 1 .. v.len |-> h[v.arr][v.lo + j]]

\* buf[-2:]: a view of the last two samples of buf, or of all of buf when it
\* has fewer
LastTwo(v) == IF v.len >= 2 THEN View(v.arr, v.lo + v.len - 2, 2) ELSE v

\* seq[2:]
From2(seq) == IF Len(seq) <= 2 THEN <<>> ELSE SubSeq(seq, 3, Len(seq))

\* BiquadFilter.__init__: the coefficients, and two arrays np.zeros(2) of its own
\* (named own_x, own_y) as the input and output history
BiquadFilter(c, own_x, own_y) ==
    [b0 |-> c.b0, b1 |-> c.b1, b2 |-> c.b2, a0 |-> c.a0, a1 |-> c.a1, a2 |-> c.a2,
     _x |-> View(own_x, 0, 2), _y |-> View(own_y, 0, 2)]

\* the sample process_block computes at index i of the concatenated arrays _x, _y
\* (0-based, as in the code)
BiquadSample(self, _x, _y, i) ==
    LET q(c) == RDiv(RInt(c), RInt(self.a0))
    IN  RSub(RSub(RAdd(RAdd(RMul(q(self.b0), _x[i + 1]),
                            RMul(q(self.b1), _x[i])),
                       RMul(q(self.b2), _x[i - 1])),
                  RMul(q(self.a1), _y[i])),
             RMul(q(self.a2), _y[i - 1]))

\* for i in range(2, _len): the passes from i on, giving _y; not ok
\* (IndexError) when a pass stores past the end of _y
RECURSIVE BiquadLoop(_, _, _, _, _)
BiquadLoop(self, _x, _y, i, _len) ==
    IF i >= _len THEN [ok |-> TRUE, y |-> _y]
    ELSE IF i + 1 > Len(_y) THEN [ok |-> FALSE, y |-> <<>>]
    ELSE BiquadLoop(self, _x, [_y EXCEPT ![i + 1] = BiquadSample(self, _x, _y, i)],
                    i + 1, _len)

\* np.copyto(dst, src): the samples dst holds afterwards; not ok (ValueError)
\* when src has neither dst's length nor length 1 (which numpy repeats over dst)
CopyTo(dst, src) ==
    IF Len(src) = Len(dst) THEN [ok |-> TRUE, out |-> src]
    ELSE IF Len(src) = 1 THEN [ok |-> TRUE, out |-> [j \in 1 .. Len(dst) |-> src[1]]]
    ELSE [ok |-> FALSE, out |-> <<>>]

\* h with the stretch that view v shows replaced by seq
WriteView(h, v, seq) ==
    [h EXCEPT ![v.arr] = [j \in 1 .. Len(h[v.arr]) |->
        IF j > v.lo /\ j <= v.lo + v.len THEN seq[j - v.lo] ELSE h[v.arr][j]]]

\* BiquadFilter.process_block(input_buffer, output_buffer) in heap h: how the
\* call ends, the heap and the filter object afterwards
process_block(self, h, input_buffer, output_buffer) ==
    LET _len == input_buffer.len
        _x   == Deref(h, self._x) \o Deref(h, input_buffer)
        _y   == Deref(h, self._y) \o Deref(h, output_buffer)
        y2   == BiquadLoop(self, _x, _y, 2, _len)
        cp   == CopyTo(Deref(h, output_buffer), From2(y2.y))
    IN  IF ~y2.ok THEN [status |-> "IndexError", heap |-> h, self |-> self]
        ELSE IF ~cp.ok THEN [status |-> "ValueError", heap |-> h, self |-> self]
        ELSE [status |-> "returned",
              heap   |-> WriteView(h, output_buffer, cp.out),
              self   |-> [self EXCEPT !._x = LastTwo(input_buffer),
                                      !._y = LastTwo(output_buffer)]]

----------------------------------------------------------------------------
(* A caller of the filters: it holds one input array X and, for each of two  *)
(* filters built from the same coefficients, an output array of X's length.  *)
(* It passes a filter the next stretch of X and the same stretch of that     *)
(* filter's output array, as slices; between calls it may write to its       *)
(* arrays.                                                                   *)

FilterNames == {"f", "g"}

\* coefficients b0, b1, b2, a0, a1, a2: a pass-through, and a filter with every
\* tap in use and a0 /= 1
CoeffSets ==
    {[b0 |-> 1, b1 |-> 0, b2 |-> 0, a0 |-> 1, a1 |-> 0, a2 |-> 0],
     [b0 |-> 1, b1 |-> 2, b2 |-> 1, a0 |-> 2, a1 |-> 1, a2 |-> 1]}

\* what the caller's output arrays hold before the first call
OutFills == {0, 5}

\* the value a caller's write stores
WriteValues == {9}

\* array names: the caller's input array, and per filter its output array and
\* the two arrays the filter allocated for itself
InArr == <<"X", "caller">>

OutArr(f) == <<"Y", f>>

OwnX(f) == <<"x", f>>

OwnY(f) == <<"y", f>>

\* what the caller did with one filter so far: how much of X it passed, the
\* block lengths, the input blocks and the output blocks as each call left them,
\* whether every output block held zeros when passed, whether a call raised
NoStream ==
    [pos |-> 0, calls |-> <<>>, xs |-> <<>>, ys |-> <<>>, zeroed |-> TRUE,
     raised |-> FALSE]

InitBiquad ==
    /\ built = NoBuild /\ OscIdle /\ AllpassIdle
    /\ \E c \in CoeffSets :
          filt = [f \in FilterNames |-> BiquadFilter(c, OwnX(f), OwnY(f))]
    /\ \E n \in 0 .. MaxStream : \E fill \in OutFills :
          heap = [a \in {InArr} \cup {OutArr(f) : f \in FilterNames}
                        \cup {OwnX(f) : f \in FilterNames}
                        \cup {OwnY(f) : f \in FilterNames} |->
                    IF a = InArr THEN [j \in 1 .. n |-> RInt(j)]
                    ELSE IF a \in {OutArr(f) : f \in FilterNames}
                         THEN [j \in 1 .. n |-> RInt(fill)]
                    ELSE <<RInt(0), RInt(0)>>]
    /\ stream = [f \in FilterNames |-> NoStream]
    /\ lastCall = NoCall
    /\ writes = 0

TotalCalls == Len(stream["f"].calls) + Len(stream["g"].calls)

\* the caller passes filter f the next n samples of X and of f's output array
ProcessBlock(f, n) ==
    LET lo  == stream[f].pos
        inv == View(InArr, lo, n)
        ouv == View(OutArr(f), lo, n)
        res == process_block(filt[f], heap, inv, ouv)
    IN  /\ ~stream[f].raised
        /\ TotalCalls < MaxCalls
        /\ lo + n <= Len(heap[InArr])
        /\ heap' = res.heap
        /\ filt' = [filt EXCEPT ![f] = res.self]
        /\ stream' = [stream EXCEPT ![f] =
              [pos    |-> lo + n,
               calls  |-> Append(@.calls, n),
               xs     |-> @.xs \o Deref(heap, inv),
               ys     |-> @.ys \o Deref(res.heap, ouv),
               zeroed |-> @.zeroed /\ \A j \in 1 .. n : Deref(heap, ouv)[j] = RInt(0),
               raised |-> res.status /= "returned"]]
        /\ lastCall' = [filter |-> f, status |-> res.status,
                        input  |-> Deref(heap, inv),
                        before |-> Deref(heap, ouv),
                        after  |-> Deref(res.heap, ouv),
                        hx     |-> Deref(heap, filt[f]._x),
                        hy     |-> Deref(heap, filt[f]._y)]
        /\ UNCHANGED <<built, oscVars, writes, allpassVars>>

\* the caller stores v at index i of one of its arrays
CallerWrite(a, i, v) ==
    /\ writes < MaxWrites
    /\ i \in 1 .. Len(heap[a])
    /\ heap' = [heap EXCEPT ![a][i] = RInt(v)]
    /\ writes' = writes + 1
    /\ UNCHANGED <<built, oscVars, filt, stream, lastCall, allpassVars>>

NextBiquad ==
    \/ \E f \in FilterNames, n \in 0 .. MaxStream : ProcessBlock(f, n)
    \/ \E a \in {InArr} \cup {OutArr(f) : f \in FilterNames},
          i \in 1 .. MaxStream, v \in WriteValues : CallerWrite(a, i, v)

SpecBiquad == InitBiquad /\ [][NextBiquad]_vars

----------------------------------------------------------------------------
(* Properties of the biquad filter *)

\* the samples filter f holds as its input and its output history
HistX(f) == Deref(heap, filt[f]._x)

HistY(f) == Deref(heap, filt[f]._y)

\* C2, as claimed: one process_block call on 2N samples gives, sample for
\* sample, the output of two calls on the first and the last N samples, both on
\* a freshly built filter with zeroed output buffers.
C2_BlockContinuity ==
    \A f, g \in FilterNames : \A n \in 1 .. MaxStream :
        (/\ writes = 0
         /\ stream[f].calls = <<2 * n>> /\ stream[g].calls = <<n, n>>
         /\ stream[f].xs = stream[g].xs
         /\ stream[f].zeroed /\ stream[g].zeroed)
        => (/\ ~stream[f].raised /\ ~stream[g].raised
            /\ stream[f].ys = stream[g].ys)

\* the difference equation over a block x, from the two input samples hx and the
\* two output samples hy before it: the first n output samples
RECURSIVE DifferenceEquation(_, _, _, _, _)
DifferenceEquation(c, hx, hy, x, n) ==
    IF n = 0 THEN <<>>
    ELSE LET y   == DifferenceEquation(c, hx, hy, x, n - 1)
             xx  == hx \o x
             yy  == hy \o y
             i   == n + 2
             s   == RSub(RSub(RAdd(RAdd(RMul(RInt(c.b0), xx[i]),
                                        RMul(RInt(c.b1), xx[i - 1])),
                                   RMul(RInt(c.b2), xx[i - 2])),
                              RMul(RInt(c.a1), yy[i - 1])),
                         RMul(RInt(c.a2), yy[i - 2]))
         IN  Append(y, RDiv(s, RInt(c.a0)))

\* C3, as claimed: process_block writes every output sample of the block from
\* the difference equation, the first two from the stored history; none keeps
\* what the output buffer held before the call.
C3_DifferenceEquation ==
    (lastCall.status /= "none" /\ Len(lastCall.hx) = 2 /\ Len(lastCall.hy) = 2) =>
        /\ lastCall.status = "returned"
        /\ lastCall.after =
              DifferenceEquation(filt[lastCall.filter], lastCall.hx, lastCall.hy,
                                 lastCall.input, Len(lastCall.input))

\* the last two samples of a stream that began with two zeros
LastTwoOf(seq) == LET z == <<RInt(0), RInt(0)>> \o seq IN SubSeq(z, Len(z) - 1, Len(z))

\* C4, as claimed: after any sequence of process_block calls, blocks of 0 or 1
\* samples included, the stored input and output history hold exactly the last
\* two input samples and the last two outputs of the stream.
C4_HistoryLength ==
    \A f \in FilterNames :
        (writes = 0 /\ ~stream[f].raised) =>
            /\ HistX(f) = LastTwoOf(stream[f].xs)
            /\ HistY(f) = LastTwoOf(stream[f].ys)

\* C5, as claimed: a write the caller makes to its input or output buffer after
\* process_block returned leaves every filter's stored history as it was.
C5_NoRetention ==
    [][writes' = writes + 1 =>
          \A f \in FilterNames : HistX(f)' = HistX(f) /\ HistY(f)' = HistY(f)]_vars

----------------------------------------------------------------------------
(* dsp/filters/allpass.py: the first-order AllpassFilter with a modulated     *)
(* coefficient                                                                *)

\* min(a, b) on doubles: a unless b < a
RMin(a, b) == IF RLess(b, a) THEN b ELSE a

\* AllpassFilter.__init__(offset, amplitude, rate)
AllpassFilter(offset, amplitude, rate) ==
    LET _mmax   == R(82, 100)
        _mmin   == R(-5, 100)
        _range  == RSub(_mmax, _mmin)
        _offset == RMul(offset, _range)
        _amp    == RMin(amplitude, RSub(_mmax, _offset))
    IN  [_mmax |-> _mmax, _mmin |-> _mmin, _range |-> _range, _offset |-> _offset,
         _amp |-> _amp, _rate |-> rate,
         a0 |-> RInt(1), b1 |-> RInt(1),
         b0 |-> RAdd(_mmin, _offset), a1 |-> RAdd(_mmin, _offset),
         _x |-> RInt(0), _y |-> RInt(0)]

\* AllpassFilter.update(t):
\* self._mmin + self._offset + self._amp * np.sin(2.0 * np.pi * self._rate * t / 44100.)
update(self, t) ==
    RAdd(RAdd(self._mmin, self._offset),
         RMul(self._amp, NpSin(R(self._rate * t, SAMPLE_RATE))))

\* process_block, the sample of one pass (i 0-based into _x and _y, as in the
\* code), from the coefficients the filter holds when the pass begins
AllpassSample(self, _x, _y, i) ==
    RSub(RAdd(RMul(RDiv(self.b0, self.a0), _x[i + 1]),
              RMul(RDiv(self.b1, self.a0), _x[i])),
         RMul(RDiv(self.a1, self.a0), _y[i]))

\* the new coefficient stored in b0 only, a1 left behind
SetCoefficient_B0Only(self, c) == [self EXCEPT !.b0 = c]

\* self.b0 = self.a1 = c
SetCoefficient(self, c) == [self EXCEPT !.b0 = c, !.a1 = c]

\* the record of a pass: the coefficients its sample was computed with and the
\* coefficients it leaves
PassRecord(i, self, after) ==
    [i |-> i, b0_used |-> self.b0, a1_used |-> self.a1,
     b0 |-> after.b0, a1 |-> after.a1, a0 |-> after.a0, b1 |-> after.b1]

\* process_block, one pass of `for i in range(2, _len)`: the sample, its store
\* in _y[i], then self.b0 = self.a1 = self.update(i).  st holds the filter, _y
\* and the passes made so far.
AllpassPass(st, _x, i) ==
    [self  |-> SetCoefficient(st.self, update(st.self, i)),
     y     |-> [st.y EXCEPT ![i + 1] = AllpassSample(st.self, _x, st.y, i)],
     trace |-> Append(st.trace,
                      PassRecord(i, st.self, SetCoefficient(st.self, update(st.self, i))))]

\* for i in range(2, _len): the passes from i on; not ok (IndexError) when a
\* pass indexes past the end of _y, the filter then as the earlier passes left it
RECURSIVE AllpassLoop(_, _, _, _)
AllpassLoop(st, _x, i, _len) ==
    IF i >= _len THEN [ok |-> TRUE, st |-> st]
    ELSE IF i + 1 > Len(st.y) THEN [ok |-> FALSE, st |-> st]
    ELSE AllpassLoop(AllpassPass(st, _x, i), _x, i + 1, _len)

\* process_block after its loop: np.copyto(output_buffer, _y[1:]), which copies
\* between equal lengths, then self._x = input_buffer[-1] and
\* self._y = output_buffer[-1], each an IndexError on an empty buffer
AllpassStore(lp, input_buffer, output_buffer) ==
    IF ~lp.ok THEN
        [status |-> "IndexError", out |-> output_buffer, self |-> lp.st.self,
         trace |-> lp.st.trace]
    ELSE IF Len(input_buffer) = 0 THEN
        [status |-> "IndexError", out |-> Tail(lp.st.y), self |-> lp.st.self,
         trace |-> lp.st.trace]
    ELSE IF Len(output_buffer) = 0 THEN
        [status |-> "IndexError", out |-> Tail(lp.st.y),
         self |-> [lp.st.self EXCEPT !._x = input_buffer[Len(input_buffer)]],
         trace |-> lp.st.trace]
    ELSE
        [status |-> "returned", out |-> Tail(lp.st.y),
         self |-> [lp.st.self EXCEPT !._x = input_buffer[Len(input_buffer)],
                                     !._y = lp.st.y[Len(lp.st.y)]],
         trace |-> lp.st.trace]

\* AllpassFilter.process_block(input_buffer, output_buffer): how the call ends,
\* the samples of output_buffer and the filter afterwards, and the passes made
allpass_process_block(self, input_buffer, output_buffer) ==
    AllpassStore(AllpassLoop([self  |-> self,
                              y     |-> <<self._y>> \o output_buffer,
                              trace |-> <<>>],
                             <<self._x>> \o input_buffer, 2, Len(input_buffer)),
                 input_buffer, output_buffer)

----------------------------------------------------------------------------
(* A caller of the first-order allpass: it builds a filter, allocates an     *)
(* input and an output buffer and passes them whole, call after call.        *)

\* offset values over the documented range [0.0, 1.0]: both ends, and two
\* inside for which the initial coefficient is a short fraction (1/4 and 1/2)
AllpassOffsets == {R(0, 1), R(10, 29), R(55, 87), R(1, 1)}

\* amplitudes over the documented range [0.0, 1.0]
AllpassAmplitudes == {R(0, 1), R(1, 4), R(1, 1)}

\* modulator rates in Hz: none, and two whose sine is -1 and 1 at sample 3
\* (11025 Hz: a cycle every 4 samples; 33075 Hz: three cycles every 4)
AllpassRates == {0, 11025, 33075}

\* the buffers: the input a ramp, the output silence
AllpassBuffers(n, m) == [input |-> [j \in 1 .. n |-> RInt(j)], output |-> Zeros(m)]

\* the filter built and two buffers of one length allocated
InitAllpass ==
    /\ built = NoBuild /\ OscIdle /\ BiquadIdle
    /\ \E offset \in AllpassOffsets, amplitude \in AllpassAmplitudes,
          rate \in AllpassRates :
          apf = AllpassFilter(offset, amplitude, rate)
    /\ \E n \in 0 .. MaxBlock : apbuf = AllpassBuffers(n, n)
    /\ apcall = NoAllpassCall

\* apf.process_block(input, output)
AllpassProcessBlock ==
    LET res == allpass_process_block(apf, apbuf.input, apbuf.output)
    IN  /\ apcall.status \in {"none", "returned"}
        /\ apcall.calls < MaxAllpassCalls
        /\ apf' = res.self
        /\ apbuf' = [apbuf EXCEPT !.output = res.out]
        /\ apcall' = [status |-> res.status,
                      calls  |-> apcall.calls + 1,
                      before |-> apbuf.output,
                      trace  |-> apcall.trace \o res.trace]
        /\ UNCHANGED <<built, oscVars, biquadVars>>

NextAllpass == AllpassProcessBlock

SpecAllpass == InitAllpass /\ [][NextAllpass]_vars

----------------------------------------------------------------------------
(* Properties of the first-order allpass *)

AllpassBuilt == apf /= NoAllpass

\* c lies in the band [self._mmin, self._mmax]
InBand(c) == RLeq(apf._mmin, c) /\ RLeq(c, apf._mmax)

\* C16, as claimed: for any offset in [0, 1], any amplitude and any rate, the
\* coefficient b0 (= a1) lies in [_mmin, _mmax] = [-0.05, 0.82] when the filter
\* is built and after every coefficient update.
C16_CoefficientInBand ==
    AllpassBuilt =>
        /\ InBand(apf.b0) /\ InBand(apf.a1)
        /\ \A j \in DOMAIN apcall.trace :
              InBand(apcall.trace[j].b0) /\ InBand(apcall.trace[j].a1)

\* C17, as claimed: the coefficient each output sample i is computed with is
\* the modulator's value for sample i, update(i), set before the sample is
\* computed.
C17_CoefficientPerSample ==
    AllpassBuilt =>
        \A j \in DOMAIN apcall.trace :
            /\ apcall.trace[j].b0_used = update(apf, apcall.trace[j].i)
            /\ apcall.trace[j].a1_used = update(apf, apcall.trace[j].i)

\* C18: when the filter is built, after every pass of process_block's loop and
\* after every process_block call, b0 = a1, a0 = 1 and b1 = 1; every sample is
\* computed with b0 = a1.
C18_B0EqualsA1 ==
    AllpassBuilt =>
        /\ apf.b0 = apf.a1 /\ apf.a0 = RInt(1) /\ apf.b1 = RInt(1)
        /\ \A j \in DOMAIN apcall.trace :
              LET ps == apcall.trace[j]
              IN  /\ ps.b0 = ps.a1 /\ ps.a0 = RInt(1) /\ ps.b1 = RInt(1)
                  /\ ps.b0_used = ps.a1_used

\* C18 witness: two process_block calls returned, each with two passes, and
\* the modulator has moved the coefficients from the values they were built with
C18_Witness ==
    /\ AllpassBuilt /\ apcall.status = "returned" /\ apcall.calls = 2
    /\ Len(apcall.trace) = 4
    /\ apf.b0 /= RAdd(apf._mmin, apf._offset)
    /\ apcall.trace[1].b0 /= apcall.trace[2].b0

\* the modulator holds the coefficient constant
ConstantCoefficient == apf._amp = RInt(0) \/ apf._rate = 0

\* the first-order difference equation with coefficient c:
\* y[n] = c * x[n] + x[n-1] - c * y[n-1]
AllpassEquation(c, x, x1, y1) == RSub(RAdd(RMul(c, x), x1), RMul(c, y1))

\* C23, as claimed: with the coefficient held constant, after every
\* process_block call that returned, every output sample of the block obeys
\* the difference equation: the first from the last input and last output
\* sample of the previous block (zero on the first call; the caller passes the
\* same input buffer again), each later one from the samples before it; and
\* the stored history is the block's last input and last output sample.
C23_CarriesState ==
    (AllpassBuilt /\ apcall.status = "returned" /\ ConstantCoefficient) =>
        LET n  == Len(apbuf.input)
            x  == apbuf.input
            y  == apbuf.output
            px == IF apcall.calls = 1 THEN RInt(0) ELSE x[n]
            py == IF apcall.calls = 1 THEN RInt(0) ELSE apcall.before[n]
        IN  /\ y[1] = AllpassEquation(apf.b0, x[1], px, py)
            /\ \A k \in 2 .. n : y[k] = AllpassEquation(apf.b0, x[k], x[k - 1], y[k - 1])
            /\ apf._x = x[n] /\ apf._y = y[n]

----------------------------------------------------------------------------
(* A caller that passes process_block an input and an output buffer of        *)
(* different sizes, to a biquad and to a first-order allpass.                 *)

\* the filters built; input buffers of n samples and output buffers of m
InitSizes ==
    /\ built = NoBuild /\ OscIdle
    /\ \E c \in CoeffSets :
          filt = [f \in FilterNames |-> BiquadFilter(c, OwnX(f), OwnY(f))]
    /\ \E offset \in AllpassOffsets, amplitude \in AllpassAmplitudes,
          rate \in AllpassRates :
          apf = AllpassFilter(offset, amplitude, rate)
    /\ \E n \in 0 .. MaxStream, m \in 0 .. MaxStream :
          /\ n /= m
          /\ heap = [a \in {InArr} \cup {OutArr(f) : f \in FilterNames}
                           \cup {OwnX(f) : f \in FilterNames}
                           \cup {OwnY(f) : f \in FilterNames} |->
                       IF a = InArr THEN [j \in 1 .. n |-> RInt(j)]
                       ELSE IF a \in {OutArr(f) : f \in FilterNames} THEN Zeros(m)
                       ELSE <<RInt(0), RInt(0)>>]
          /\ apbuf = AllpassBuffers(n, m)
    /\ stream = [f \in FilterNames |-> NoStream]
    /\ lastCall = NoCall
    /\ writes = 0
    /\ apcall = NoAllpassCall

\* the caller passes biquad f its whole input array and f's whole output array
ProcessArrays(f) ==
    LET inv == View(InArr, 0, Len(heap[InArr]))
        ouv == View(OutArr(f), 0, Len(heap[OutArr(f)]))
        res == process_block(filt[f], heap, inv, ouv)
    IN  /\ stream[f].calls = <<>>
        /\ heap' = res.heap
        /\ filt' = [filt EXCEPT ![f] = res.self]
        /\ stream' = [stream EXCEPT ![f] =
              [pos    |-> inv.len,
               calls  |-> Append(@.calls, inv.len),
               xs     |-> @.xs \o Deref(heap, inv),
               ys     |-> @.ys \o Deref(res.heap, ouv),
               zeroed |-> TRUE,
               raised |-> res.status /= "returned"]]
        /\ lastCall' = [filter |-> f, status |-> res.status,
                        input  |-> Deref(heap, inv),
                        before |-> Deref(heap, ouv),
                        after  |-> Deref(res.heap, ouv),
                        hx     |-> Deref(heap, filt[f]._x),
                        hy     |-> Deref(heap, filt[f]._y)]
        /\ UNCHANGED <<built, oscVars, writes, allpassVars>>

NextSizes ==
    \/ \E f \in FilterNames : ProcessArrays(f)
    \/ AllpassProcessBlock

SpecSizes == InitSizes /\ [][NextSizes]_vars

\* C19, as claimed: a process_block call given an input and an output buffer
\* of different sizes raises an error, on the biquad and on the first-order
\* allpass; it never returns having processed part of a block.
C19_MismatchRejected ==
    /\ (lastCall.status /= "none" /\ Len(lastCall.input) /= Len(lastCall.before))
          => lastCall.status /= "returned"
    /\ (apcall.status /= "none" /\ Len(apbuf.input) /= Len(apbuf.output))
          => apcall.status /= "returned"

----------------------------------------------------------------------------
(* What build returns for every frequency *)

\* C26, as claimed: for triangle, sawtooth and square and every frequency
\* (above NYQUIST, zero and negative ones included) build either fails with an
\* error or returns a table whose samples are all numbers, the largest
\* absolute value 1; normalize is never given a sum whose maximum is 0.
C26_DefinedOrError ==
    (built.wavetype \in {TRIANGLE, SAWTOOTH, SQUARE} /\ built.result.status = "ok") =>
        /\ \A i \in TableIndex : ~IsNaN(built.result.table[i])
        /\ MaxAbs(built.result.table) = RInt(1)
        /\ MaxAbs(built.result.raw) /= RInt(0)

----------------------------------------------------------------------------
(* The reads of StandardOscillator.render *)

\* the passes of the renders done by the standard oscillator: the indices of
\* a buffer it has rendered into
StandardPasses ==
    UNION {IF \E j \in 1 .. Len(rendered[b]) : rendered[b][j] = "ss"
           THEN 0 .. Len(bufs[b]) - 1 ELSE {} : b \in BufNames}

\* C22: in every pass i of a render of the standard oscillator (increment not
\* negative) the two table indices read are floor(i * incr) mod TABLE_SIZE and
\* (floor(i * incr) + 1) mod TABLE_SIZE, both in 0 .. TABLE_SIZE - 1, the
\* weight of the right sample is i * incr - floor(i * incr), in [0, 1), and
\* the weights of the two samples sum to 1.
C22_AdjacentReads ==
    \A i \in StandardPasses :
        LET x == RMul(RInt(i), ss_osc.incr)
            rd == StandardRead(ss_osc, i)
        IN  RLeq(RInt(0), ss_osc.incr) =>
              /\ rd.left = RFloor(x) % TABLE_SIZE
              /\ rd.right = (RFloor(x) + 1) % TABLE_SIZE
              /\ rd.left \in TableIndex /\ rd.right \in TableIndex
              /\ rd.alpha = RSub(x, RInt(RFloor(x)))
              /\ RLeq(RInt(0), rd.alpha) /\ RLess(rd.alpha, RInt(1))
              /\ RAdd(RSub(RInt(1), rd.alpha), rd.alpha) = RInt(1)

\* C22 witness: a render of the standard oscillator with a pass that reads
\* past the end of the table (the mask wraps the index), between two samples
C22_Witness ==
    /\ \E i \in StandardPasses :
          /\ RFloor(RMul(RInt(i), ss_osc.incr)) >= TABLE_SIZE
          /\ StandardRead(ss_osc, i).alpha /= RInt(0)
    /\ RLess(RInt(0), ss_osc.incr)

----------------------------------------------------------------------------
(* The table of a detuned StandardOscillator *)

\* the standard oscillator was built from wave type w and the arguments the
\* caller gave all three oscillators (the resampling oscillator keeps freq and
\* detune as given)
StandardBuiltFrom(w) ==
    /\ ss_osc /= NoOsc
    /\ ss_osc = StandardOscillator(w, rs_osc.freq, rs_osc.detune, rs_osc.level)

\* C24, as claimed: the table of a standard oscillator built from a summed
\* wave type, any freq and any detune is band-limited for the frequency the
\* oscillator plays, freq * 2^(detune/1200): every harmonic k summed into the
\* table has k * freq * 2^(detune/1200) <= SAMPLE_RATE / 2.
C24_BandLimitedAsPlayed ==
    \A w \in OscWaveTypes \ {SINE} :
        StandardBuiltFrom(w) =>
            LET ps == Harmonic(w, rs_osc.freq).partials
            IN  \A j \in DOMAIN ps :
                    RLeq(RMul(RInt(ps[j].k), ss_osc.freq), R(SAMPLE_RATE, 2))

\* every sample of the standard oscillator's table is a number
TableDefined == \A j \in TableIndex : ~IsNaN(ss_osc.table[j])

\* C25, as claimed: with detune = 0, a ResamplingOscillator rendered into one
\* buffer and the StandardOscillator of the same arguments into another that
\* held the same contents leave the two buffers equal at every index
\* 0 .. size - 1 (stated for tables whose samples are all numbers).
C25_PassThrough ==
    \A x, y \in BufNames :
        (/\ rendered[x] = <<"rs">> /\ rendered[y] = <<"ss">>
         /\ rs_osc.detune = 0 /\ TableDefined) =>
            \A i \in BufIndex : At(x, i) = At(y, i)

----------------------------------------------------------------------------
(* dsp/filters/biquad.py: AllpassFilter, the biquad allpass *)

\* np.cos(2 * np.pi * p) = np.sin(2 * np.pi * (p + 1/4)), p a number of cycles
NpCos(p) == NpSin(RAdd(p, R(1, 4)))

\* the coefficients with a2 = 1. + alpha
BiquadAllpassFilter_A2Plus(fs, f0, Q) ==
    [b0 |-> RSub(RInt(1), RDiv(NpSin(R(f0, fs)), RMul(RInt(2), Q))),
     b1 |-> RMul(RInt(-2), NpCos(R(f0, fs))),
     b2 |-> RAdd(RInt(1), RDiv(NpSin(R(f0, fs)), RMul(RInt(2), Q))),
     a0 |-> RAdd(RInt(1), RDiv(NpSin(R(f0, fs)), RMul(RInt(2), Q))),
     a1 |-> RMul(RInt(-2), NpCos(R(f0, fs))),
     a2 |-> RAdd(RInt(1), RDiv(NpSin(R(f0, fs)), RMul(RInt(2), Q)))]

\* AllpassFilter.__init__(fs, f0, Q): w0 = 2 * np.pi * f0 / fs is f0/fs cycles,
\* alpha = np.sin(w0) / (2 * Q); the six coefficients handed to
\* BiquadFilter.__init__
BiquadAllpassFilter(fs, f0, Q) ==
    [b0 |-> RSub(RInt(1), RDiv(NpSin(R(f0, fs)), RMul(RInt(2), Q))),
     b1 |-> RMul(RInt(-2), NpCos(R(f0, fs))),
     b2 |-> RAdd(RInt(1), RDiv(NpSin(R(f0, fs)), RMul(RInt(2), Q))),
     a0 |-> RAdd(RInt(1), RDiv(NpSin(R(f0, fs)), RMul(RInt(2), Q))),
     a1 |-> RMul(RInt(-2), NpCos(R(f0, fs))),
     a2 |-> RSub(RInt(1), RDiv(NpSin(R(f0, fs)), RMul(RInt(2), Q)))]

\* sampling frequencies in Hz
AllpassFs == {44100, 48000}

\* centre frequencies in Hz: 0, ones below half the sampling frequency, that
\* half for fs = 44100, and one above it
AllpassF0 == {0, 3675, 6000, 7350, 11025, 12000, 14700, 18375, 22050, 29400}

\* Q, a positive number as documented: below 1, 1 and above
AllpassQ == {R(1, 10), R(1, 5), R(13, 20), R(1, 1), R(2, 1)}

\* no filter built yet
InitBiquadAllpass ==
    /\ built = NoBuild /\ OscIdle /\ AllpassIdle
    /\ heap = <<>> /\ filt = <<>> /\ stream = <<>> /\ lastCall = NoCall /\ writes = 0

\* apf = AllpassFilter(fs, f0, Q): the filter object, with its two history
\* arrays allocated
BuildBiquadAllpass(f, fs, f0, Q) ==
    /\ f \notin DOMAIN filt
    /\ filt' = [g \in DOMAIN filt \cup {f} |->
                  IF g = f THEN BiquadFilter(BiquadAllpassFilter(fs, f0, Q), OwnX(f), OwnY(f))
                  ELSE filt[g]]
    /\ heap' = [a \in DOMAIN heap \cup {OwnX(f), OwnY(f)} |->
                  IF a \in {OwnX(f), OwnY(f)} THEN <<RInt(0), RInt(0)>> ELSE heap[a]]
    /\ UNCHANGED <<built, oscVars, stream, lastCall, writes, allpassVars>>

NextBiquadAllpass ==
    \E f \in FilterNames, fs \in AllpassFs, f0 \in AllpassF0, Q \in AllpassQ :
        BuildBiquadAllpass(f, fs, f0, Q)

SpecBiquadAllpass == InitBiquadAllpass /\ [][NextBiquadAllpass]_vars

\* C21: every biquad allpass built has its numerator coefficients equal to its
\* denominator coefficients in reverse order, b0 = a2, b1 = a1, b2 = a0; with
\* them the squared magnitudes of numerator and denominator of H are equal at
\* the frequencies 0, fs/4 and fs/2 (z^-1 = 1, -j, -1).
C21_ReversedCoefficients ==
    \A f \in DOMAIN filt :
        LET c == filt[f]
        IN  /\ c.b0 = c.a2 /\ c.b1 = c.a1 /\ c.b2 = c.a0
            /\ RAdd(RAdd(c.b0, c.b1), c.b2) = RAdd(RAdd(c.a0, c.a1), c.a2)
            /\ RSub(RAdd(c.b0, c.b2), c.b1) = RSub(RAdd(c.a0, c.a2), c.a1)
            /\ RAdd(RMul(RSub(c.b0, c.b2), RSub(c.b0, c.b2)), RMul(c.b1, c.b1))
                  = RAdd(RMul(RSub(c.a0, c.a2), RSub(c.a0, c.a2)), RMul(c.a1, c.a1))

\* C21 witness: an allpass built with alpha and cos(w0) other than 0, so that
\* b0, b1 and b2 are three different numbers
C21_Witness ==
    \E f \in DOMAIN filt :
        /\ filt[f].b0 /= filt[f].b2 /\ filt[f].b1 /= RInt(0)
        /\ filt[f].b0 /= filt[f].b1 /\ filt[f].b2 /= filt[f].b1
        /\ ~IsNaN(filt[f].b0) /\ ~IsNaN(filt[f].b1)

====
